---- MODULE Spec2Model ----
(***************************************************************************)
(* School management backend: the AcademicYearOrchestrator state machine   *)
(* (academic year lifecycle, setup tracker, grades, enrollments, import    *)
(* tasks) and the profile managers, modelled over the database tables.     *)
(*                                                                         *)
(* A table is a set of rows when the database keeps its key unique and the *)
(* key is the row's identity in the model (AcademicYear.name), and a bag   *)
(* of rows where uniqueness is what a constraint has to enforce.  An       *)
(* operation that raises inside transaction.atomic leaves every table as   *)
(* it was; `outcome` records the operation, its target and how it ended.   *)
(* Model instances handed to an operation are fresh reads of their rows.   *)
(***************************************************************************)
EXTENDS Integers, FiniteSets, Sequences, Bags, TLC

VARIABLES academic_years, setups, grades, enrollments, import_tasks,
          users, profiles, auth_groups, teachers, records, now, outcome

vars == <<academic_years, setups, grades, enrollments, import_tasks,
          users, profiles, auth_groups, teachers, records, now, outcome>>

\* ------------------------------------------------------------------ bounds
MaxDate == 3
MaxRecords == 3
MaxTasks == 1
MaxGradeNames == 2
MaxStudents == 1
MaxUsers == 3
MaxBulk == 2
MaxNow == 61
MaxRows == 2
MaxAttempts == 7

\* --------------------------------------------------------------- enumerations
SETUP == "SETUP"
ENROLLMENT == "ENROLLMENT"
ACTIVE == "ACTIVE"
COMPLETED == "COMPLETED"
Status == {SETUP, ENROLLMENT, ACTIVE, COMPLETED}

FRESH_START == "FRESH_START"
MID_YEAR == "MID_YEAR"
DeploymentType == {FRESH_START, MID_YEAR}

SetupSteps ==
    {"BASIC_INFO", "IMPORT_GRADES", "IMPORT_STUDENTS", "ASSIGN_CLASSROOMS",
     "REVIEW", "COMPLETED"}

ImportMethod == {"NONE", "MANUAL", "CSV", "API"}

\* An argument left at its default None (import_method=None).
Null == "null"

\* A DateField holding NULL; dates are 1..MaxDate.
NoDate == 0
Dates == 1..MaxDate

\* ------------------------------------------------------------------- helpers
Outcome(op, arg, result) == [op |-> op, arg |-> arg, result |-> result]

YearNamesIn(table) == {r.name : r \in table}

GetYear(n) == CHOOSE r \in academic_years : r.name = n

\* A queryset over a bag of rows: the sub-bag of its rows that are in `rows`.
Filter(bag, rows) == [r \in DOMAIN bag \cap rows |-> bag[r]]

\* QuerySet.count()
Count(bag, rows) == BagCardinality(Filter(bag, rows))

BagAdd(bag, r) == bag (+) SetToBag({r})

BagRemove(bag, r) == bag (-) SetToBag({r})

\* ----------------------------------------------------------- AcademicYear
NewAcademicYear(name, start_date, end_date, deployment_type, es, ee) ==
    [name |-> name,
     start_date |-> start_date,
     end_date |-> end_date,
     is_active |-> TRUE,
     status |-> SETUP,
     deployment_type |-> deployment_type,
     setup_completed |-> FALSE,
     enrollment_start_date |-> es,
     enrollment_end_date |-> ee]

\* AcademicYear.clean: TRUE when clean() raises no ValidationError.
AcademicYear_clean(y) ==
    /\ ~(y.start_date >= y.end_date)
    /\ ~(/\ (y.enrollment_start_date # NoDate \/ y.enrollment_end_date # NoDate)
         /\ (y.enrollment_start_date = NoDate \/ y.enrollment_end_date = NoDate))
    /\ ~(/\ y.enrollment_start_date # NoDate
         /\ y.enrollment_end_date # NoDate
         /\ ~(/\ y.start_date <= y.enrollment_start_date
              /\ y.enrollment_start_date < y.enrollment_end_date
              /\ y.enrollment_end_date <= y.end_date))
    /\ ~(y.deployment_type = MID_YEAR /\ y.status = ENROLLMENT)
    /\ ~(y.status # SETUP /\ ~y.setup_completed)
    /\ ~(y.status = SETUP /\ y.setup_completed)

accepts_while_active(y) == y.status \in {SETUP, ENROLLMENT, ACTIVE}

can_accept_grades(y) == y.status \in {SETUP, ENROLLMENT}

\* ------------------------------------------------------ AcademicYearSetup
NewAcademicYearSetup(name) ==
    [academic_year |-> name,
     current_step |-> "BASIC_INFO",
     basic_info_completed |-> FALSE,
     import_grades_completed |-> FALSE,
     import_students_completed |-> FALSE,
     assign_classrooms_completed |-> FALSE,
     review_completed |-> FALSE,
     grades_import_method |-> "NONE",
     students_import_method |-> "NONE",
     classrooms_import_method |-> "NONE"]

SetupsOf(name) == {s \in DOMAIN setups : s.academic_year = name}

\* academic_year.setup_progress (the reverse one-to-one accessor).
setup_progress(name) == CHOOSE s \in SetupsOf(name) : TRUE

\* AcademicYearSetup.clean: TRUE when clean() raises no ValidationError.
AcademicYearSetup_clean(s) ==
    /\ ~(s.import_grades_completed /\ s.grades_import_method = "NONE")
    /\ ~(s.import_students_completed /\ s.students_import_method = "NONE")
    /\ ~(s.assign_classrooms_completed /\ s.classrooms_import_method = "NONE")

is_complete_without_review(s) ==
    /\ s.basic_info_completed
    /\ s.import_grades_completed
    /\ s.import_students_completed
    /\ s.assign_classrooms_completed

is_complete(s) ==
    /\ s.basic_info_completed
    /\ s.import_grades_completed
    /\ s.import_students_completed
    /\ s.assign_classrooms_completed
    /\ s.review_completed

is_setup_complete(name) ==
    IF SetupsOf(name) = {} THEN FALSE ELSE is_complete(setup_progress(name))

NoSetupUniqueCheck(name) == FALSE

\* The one-to-one constraint of AcademicYearSetup.academic_year.
SetupUniqueViolated(name) == SetupsOf(name) # {}

\* AcademicYearSetup.objects.create(academic_year=year), as the fixtures and
\* tests call it directly: the database rejects a second tracker of a year.
AcademicYearSetup_create(name) ==
    /\ name \in YearNamesIn(academic_years)
    /\ IF SetupUniqueViolated(name)
       THEN /\ outcome' = Outcome("AcademicYearSetup_create", name, "IntegrityError")
            /\ UNCHANGED setups
       ELSE /\ setups' = BagAdd(setups, NewAcademicYearSetup(name))
            /\ outcome' = Outcome("AcademicYearSetup_create", name, "ok")
    /\ UNCHANGED <<auth_groups, teachers, records, now,
                   academic_years, grades, enrollments, import_tasks, users, profiles>>

\* ------------------------------------------- SECTION 1: lifecycle management
\* AcademicYear.objects.create followed by AcademicYearSetup.objects.create,
\* neither of which runs clean().
CreateYearRows(name, start_date, end_date, deployment_type, es, ee) ==
    /\ academic_years' = academic_years \cup
           {NewAcademicYear(name, start_date, end_date, deployment_type, es, ee)}
    /\ setups' = BagAdd(setups, NewAcademicYearSetup(name))

create_academic_year(name, start_date, end_date, deployment_type, es, ee) ==
    /\ IF name \in YearNamesIn(academic_years)
       THEN \* name is unique=True
            /\ outcome' = Outcome("create_academic_year", name, "IntegrityError")
            /\ UNCHANGED <<academic_years, setups>>
       ELSE /\ CreateYearRows(name, start_date, end_date, deployment_type, es, ee)
            /\ outcome' = Outcome("create_academic_year", name, "ok")
    /\ UNCHANGED <<auth_groups, teachers, records, now,
                   grades, enrollments, import_tasks, users, profiles>>

\* academic_year.save() of a changed instance: the row is replaced.
SaveYear(old, new) ==
    academic_years' = (academic_years \ {old}) \cup {new}

ToEnrollmentStatusOnly(y) == [y EXCEPT !.status = ENROLLMENT]

ToEnrollment(y) == [y EXCEPT !.status = ENROLLMENT, !.setup_completed = TRUE]

RejectedWhateverDeployment(y, complete) ==
    \/ y.status # SETUP
    \/ ~complete

\* The three checks of transition_to_enrollment: TRUE when one of them raises.
EnrollmentRejected(y, complete) ==
    \/ y.status # SETUP
    \/ ~complete
    \/ y.deployment_type = MID_YEAR

transition_to_enrollment(name) ==
    /\ name \in YearNamesIn(academic_years)
    /\ LET y == GetYear(name) IN
       IF EnrollmentRejected(y, is_setup_complete(name))
       THEN /\ outcome' = Outcome("transition_to_enrollment", name, "ValidationError")
            /\ UNCHANGED academic_years
       ELSE /\ SaveYear(y, ToEnrollment(y))
            /\ outcome' = Outcome("transition_to_enrollment", name, "ok")
    /\ UNCHANGED <<auth_groups, teachers, records, now,
                   setups, grades, enrollments, import_tasks, users, profiles>>

ActiveFromAnywhere(y, complete) == "save"

ActiveSkippingEnrollment(y, complete) ==
    IF y.status = SETUP
    THEN IF ~complete THEN "raise" ELSE "save"
    ELSE IF y.status = ENROLLMENT
    THEN IF y.deployment_type # FRESH_START THEN "raise" ELSE "save"
    ELSE IF y.status = ACTIVE THEN "return"
    ELSE "raise"

\* The branch transition_to_active takes: "raise", "return" or "save".
ActiveBranch(y, complete) ==
    IF y.status = SETUP
    THEN IF y.deployment_type # MID_YEAR THEN "raise"
         ELSE IF ~complete THEN "raise" ELSE "save"
    ELSE IF y.status = ENROLLMENT
    THEN IF y.deployment_type # FRESH_START THEN "raise" ELSE "save"
    ELSE IF y.status = ACTIVE THEN "return"
    ELSE "raise"

transition_to_active(name) ==
    /\ name \in YearNamesIn(academic_years)
    /\ LET y == GetYear(name)
           branch == ActiveBranch(y, is_setup_complete(name)) IN
       CASE branch = "raise" ->
              /\ outcome' = Outcome("transition_to_active", name, "ValidationError")
              /\ UNCHANGED academic_years
         [] branch = "return" ->
              /\ outcome' = Outcome("transition_to_active", name, "noop")
              /\ UNCHANGED academic_years
         [] branch = "save" ->
              /\ SaveYear(y, [y EXCEPT !.status = ACTIVE, !.setup_completed = TRUE])
              /\ outcome' = Outcome("transition_to_active", name, "ok")
    /\ UNCHANGED <<auth_groups, teachers, records, now,
                   setups, grades, enrollments, import_tasks, users, profiles>>

\* transition_to_completed returns early when the year is already COMPLETED.
AlreadyCompleted(y) == y.status = COMPLETED

transition_to_completed(name) ==
    /\ name \in YearNamesIn(academic_years)
    /\ LET y == GetYear(name) IN
       IF AlreadyCompleted(y)
       THEN /\ outcome' = Outcome("transition_to_completed", name, "noop")
            /\ UNCHANGED academic_years
       ELSE /\ SaveYear(y, [y EXCEPT !.status = COMPLETED, !.is_active = FALSE])
            /\ outcome' = Outcome("transition_to_completed", name, "ok")
    /\ UNCHANGED <<auth_groups, teachers, records, now,
                   setups, grades, enrollments, import_tasks, users, profiles>>

\* --------------------------------------------- SECTION 2: setup progress
\* The setup row after mark_step_complete's assignments; step is one of the
\* five steps the if/elif chain accepts.
MarkStep(s, step, import_method) ==
    CASE step = "BASIC_INFO" ->
           [s EXCEPT !.basic_info_completed = TRUE,
                     !.current_step = "IMPORT_GRADES"]
      [] step = "IMPORT_GRADES" ->
           [s EXCEPT !.grades_import_method =
                        IF import_method # Null THEN import_method ELSE @,
                     !.import_grades_completed = TRUE,
                     !.current_step = "IMPORT_STUDENTS"]
      [] step = "IMPORT_STUDENTS" ->
           [s EXCEPT !.students_import_method =
                        IF import_method # Null THEN import_method ELSE @,
                     !.import_students_completed = TRUE,
                     !.current_step = "ASSIGN_CLASSROOMS"]
      [] step = "ASSIGN_CLASSROOMS" ->
           [s EXCEPT !.classrooms_import_method =
                        IF import_method # Null THEN import_method ELSE @,
                     !.assign_classrooms_completed = TRUE,
                     !.current_step = "REVIEW"]
      [] step = "REVIEW" ->
           [s EXCEPT !.review_completed = TRUE,
                     !.current_step = "COMPLETED"]

\* setup.save() of the changed tracker.
SaveSetup(old, new) == setups' = BagAdd(BagRemove(setups, old), new)

\* The effect of mark_step_complete on the setup table, shared with
\* report_import_completed, which calls it.
MarkStepEffect(name, step, import_method) ==
    LET s == setup_progress(name) IN
    SaveSetup(s, MarkStep(s, step, import_method))

mark_step_complete(name, step, import_method) ==
    /\ name \in YearNamesIn(academic_years)
    /\ SetupsOf(name) # {}
    /\ IF step \in SetupSteps \ {"COMPLETED"}
       THEN /\ MarkStepEffect(name, step, import_method)
            /\ outcome' = Outcome("mark_step_complete", name, "ok")
       ELSE /\ outcome' = Outcome("mark_step_complete", name, "ValidationError")
            /\ UNCHANGED setups
    /\ UNCHANGED <<auth_groups, teachers, records, now,
                   academic_years, grades, enrollments, import_tasks, users, profiles>>

\* ------------------------------------------------ SECTION 3: grade management
\* A Grade row; grade level, type and subtype are the same for every grade
\* of the model, so (academic_year, name) is the unique_together key.
NewGrade(year, name) == [academic_year |-> year, name |-> name]

\* Grade.can_be_created_for_year.
can_be_created_for_year(y) == can_accept_grades(y)

\* GradeFactory.create_grade: Grade.objects.create saves through
\* Grade.save, whose full_clean rejects a duplicate of the unique key.
create_grade(year, name) ==
    /\ year \in YearNamesIn(academic_years)
    /\ IF ~can_be_created_for_year(GetYear(year))
          \/ NewGrade(year, name) \in grades
       THEN /\ outcome' = Outcome("create_grade", year, "ValidationError")
            /\ UNCHANGED grades
       ELSE /\ grades' = grades \cup {NewGrade(year, name)}
            /\ outcome' = Outcome("create_grade", year, "ok")
    /\ UNCHANGED <<auth_groups, teachers, records, now,
                   academic_years, setups, enrollments, import_tasks, users, profiles>>

SeqToSet(q) == {q[i] : i \in 1..Len(q)}

\* GradeFactory.bulk_create_grades: bulk_create bypasses save(), so a
\* duplicate key (in the table or within the list) is the database's
\* IntegrityError, which rolls the whole call back.
bulk_create_grades(year, names) ==
    /\ year \in YearNamesIn(academic_years)
    /\ LET new == {NewGrade(year, n) : n \in SeqToSet(names)} IN
       IF ~can_be_created_for_year(GetYear(year))
       THEN /\ outcome' = Outcome("bulk_create_grades", year, "ValidationError")
            /\ UNCHANGED grades
       ELSE IF new \cap grades # {} \/ Cardinality(new) # Len(names)
       THEN /\ outcome' = Outcome("bulk_create_grades", year, "IntegrityError")
            /\ UNCHANGED grades
       ELSE /\ grades' = grades \cup new
            /\ outcome' = Outcome("bulk_create_grades", year, "ok")
    /\ UNCHANGED <<auth_groups, teachers, records, now,
                   academic_years, setups, enrollments, import_tasks, users, profiles>>

\* ------------------------------------------ SECTION 4: student enrollment
STUDENT == "Student"
TEACHER == "Teacher"

HasSomeRole(u, role) == \E r \in users : r.id = u /\ r.groups # {}

\* student.groups.filter(name=role).exists()
HasRole(u, role) == \E r \in users : r.id = u /\ role \in r.groups

NewEnrollment(u, g) ==
    [student |-> u, grade |-> g.name, academic_year |-> g.academic_year,
     is_deleted |-> FALSE]

\* StudentEnrollment.objects.filter(student, academic_year, is_deleted=False)
ActiveInYear(table, u, year) ==
    {e \in DOMAIN table :
        e.student = u /\ e.academic_year = year /\ ~e.is_deleted}

UniqueOnActiveOnly(table, u, year) == ActiveInYear(table, u, year) # {}

EnrolledSomewhere(existing, g) == existing # {}

\* existing_enrollment.grade == grade, for the first row of `existing`.
EnrolledInGrade(existing, g) ==
    (CHOOSE e \in existing : TRUE).grade = g.name

\* unique_together = ("student", "academic_year"): soft-deleted rows count.
EnrollmentUniqueViolated(table, u, year) ==
    \E e \in DOMAIN table : e.student = u /\ e.academic_year = year

\* enroll_student on the enrollment table `table`: how the call ends, the
\* table it leaves and the enrollment it returns.
Enroll(table, g, u) ==
    LET year == g.academic_year
        existing == ActiveInYear(table, u, year)
        fail(kind) == [result |-> kind, table |-> table, row |-> NewEnrollment(u, g)]
    IN
    IF ~HasRole(u, STUDENT) THEN fail("ValidationError")
    ELSE IF GetYear(year).status \notin {SETUP, ENROLLMENT, ACTIVE}
    THEN fail("ValidationError")
    ELSE IF existing # {}
    THEN LET first == CHOOSE e \in existing : TRUE IN
         IF EnrolledInGrade(existing, g)
         THEN [result |-> "existing", table |-> table, row |-> first]
         ELSE fail("ValidationError")
    ELSE IF EnrollmentUniqueViolated(table, u, year) THEN fail("IntegrityError")
    ELSE [result |-> "ok", table |-> BagAdd(table, NewEnrollment(u, g)),
          row |-> NewEnrollment(u, g)]

UnenrollHardDelete(table, g, u) ==
    LET found == {e \in ActiveInYear(table, u, g.academic_year) : e.grade = g.name}
    IN
    IF found = {} THEN [result |-> "ValidationError", table |-> table]
    ELSE [result |-> "ok", table |-> BagRemove(table, CHOOSE x \in found : TRUE)]

\* unenroll_student on the enrollment table `table`.
Unenroll(table, g, u) ==
    LET found == {e \in ActiveInYear(table, u, g.academic_year) : e.grade = g.name}
    IN
    IF found = {} THEN [result |-> "ValidationError", table |-> table]
    ELSE LET e == CHOOSE x \in found : TRUE IN
         [result |-> "ok",
          table |-> BagAdd(BagRemove(table, e), [e EXCEPT !.is_deleted = TRUE])]

enroll_student(g, u) ==
    /\ g \in grades
    /\ LET r == Enroll(enrollments, g, u) IN
       /\ enrollments' = r.table
       /\ outcome' = Outcome("enroll_student", [student |-> u, grade |-> g], r.result)
    /\ UNCHANGED <<auth_groups, teachers, records, now,
                   academic_years, setups, grades, import_tasks, users, profiles>>

unenroll_student(g, u) ==
    /\ g \in grades
    /\ LET r == Unenroll(enrollments, g, u) IN
       /\ enrollments' = r.table
       /\ outcome' = Outcome("unenroll_student", u, r.result)
    /\ UNCHANGED <<auth_groups, teachers, records, now,
                   academic_years, setups, grades, import_tasks, users, profiles>>

TransferKeepingUnenroll(table, u, from_grade, to_grade) ==
    IF from_grade.academic_year # to_grade.academic_year
    THEN [result |-> "ValidationError", table |-> table]
    ELSE LET un == Unenroll(table, from_grade, u)
             en == Enroll(un.table, to_grade, u) IN
         IF un.result # "ok" THEN [result |-> un.result, table |-> table]
         ELSE [result |-> IF en.result = "existing" THEN "ok" ELSE en.result,
               table |-> en.table]

\* transfer_student: unenroll, then enroll, in one transaction.
Transfer(table, u, from_grade, to_grade) ==
    IF from_grade.academic_year # to_grade.academic_year
    THEN [result |-> "ValidationError", table |-> table]
    ELSE LET un == Unenroll(table, from_grade, u) IN
         IF un.result # "ok" THEN [result |-> un.result, table |-> table]
         ELSE LET en == Enroll(un.table, to_grade, u) IN
              IF en.result \in {"ok", "existing"}
              THEN [result |-> "ok", table |-> en.table]
              ELSE [result |-> en.result, table |-> table]

transfer_student(u, from_grade, to_grade) ==
    /\ from_grade \in grades
    /\ to_grade \in grades
    /\ LET r == Transfer(enrollments, u, from_grade, to_grade) IN
       /\ enrollments' = r.table
       /\ outcome' = Outcome("transfer_student", u, r.result)
    /\ UNCHANGED <<auth_groups, teachers, records, now,
                   academic_years, setups, grades, import_tasks, users, profiles>>

\* bulk_enroll_students over the students[i..]: a ValidationError is caught
\* and the student skipped; any other exception leaves the loop.  The
\* enrollments field is the list the call returns, in the order appended.
RECURSIVE BulkEnroll(_, _, _, _)
BulkEnroll(table, g, students, i) ==
    IF i > Len(students)
    THEN [result |-> "ok", table |-> table, enrollments |-> << >>]
    ELSE LET r == Enroll(table, g, students[i]) IN
         IF r.result = "IntegrityError"
         THEN [result |-> "IntegrityError", table |-> table, enrollments |-> << >>]
         ELSE LET rest == BulkEnroll(r.table, g, students, i + 1) IN
              IF r.result = "ValidationError" \/ rest.result # "ok"
              THEN rest
              ELSE [rest EXCEPT !.enrollments = <<r.row>> \o @]

bulk_enroll_students(g, students) ==
    /\ g \in grades
    /\ LET r == BulkEnroll(enrollments, g, students, 1) IN
       /\ enrollments' = IF r.result = "ok" THEN r.table ELSE enrollments
       /\ outcome' = Outcome("bulk_enroll_students", g.academic_year, r.result)
    /\ UNCHANGED <<auth_groups, teachers, records, now,
                   academic_years, setups, grades, import_tasks, users, profiles>>

\* ---------------------------------------------------------- user profiles
PARENT_PROFILE == "Parent"
STUDENT_PROFILE == "Student"
SCHOOL_STAFF_PROFILE == "SchoolStaff"
ProfileType == {PARENT_PROFILE, STUDENT_PROFILE, SCHOOL_STAFF_PROFILE}

\* BaseUserTypeManager._get_existing_profiles
existing_profiles(u) == {p.type : p \in {q \in profiles : q.user = u}}

allow_any_combination(profile_types) == profile_types # {}

validate_profile_combination(profile_types) ==
    IF profile_types = {} THEN FALSE
    ELSE IF Cardinality(profile_types) = 1 THEN TRUE
    ELSE FALSE

\* BaseUserTypeManager.create of the manager of profile model `type`;
\* models.Manager.create then inserts under the one-to-one constraint of
\* the model's own table.
BaseUserTypeManager_create(type, u) ==
    /\ \E r \in users : r.id = u
    /\ LET existing == existing_profiles(u)
           proposed == existing \cup {type} IN
       IF \/ type \in existing
          \/ ~validate_profile_combination(proposed)
          \/ [user |-> u, type |-> type] \in profiles
       THEN /\ outcome' = Outcome("BaseUserTypeManager_create", u, "IntegrityError")
            /\ UNCHANGED profiles
       ELSE /\ profiles' = profiles \cup {[user |-> u, type |-> type]}
            /\ outcome' = Outcome("BaseUserTypeManager_create", u, "ok")
    /\ UNCHANGED <<auth_groups, teachers, records, now,
                   academic_years, setups, grades, enrollments, import_tasks, users>>

\* ------------------------------------------------------------- ImportTask
\* ImportTask rows carry the fields the operations and progress_percentage
\* read; timestamps, file_path, success/error counters and error_details
\* are written but never read and are left out.
TaskType == {"GRADES", "STUDENTS", "CLASSROOMS"}

TaskStatus == {"PENDING", "IN_PROGRESS", "COMPLETED", "FAILED"}

NewImportTask(name, task_type, total_records) ==
    [academic_year |-> name,
     task_type |-> task_type,
     status |-> "PENDING",
     total_records |-> total_records,
     processed_records |-> 0]

RECURSIVE GCD(_, _)
GCD(a, b) == IF b = 0 THEN a ELSE GCD(b, a % b)

\* The quotient num/den of two non-negative integers, in lowest terms; a
\* zero denominator is Python's ZeroDivisionError.
Quotient(num, den) ==
    IF den = 0 THEN [raised |-> TRUE, num |-> 0, den |-> 0]
    ELSE LET g == GCD(num, den) IN
         [raised |-> FALSE, num |-> num \div g, den |-> den \div g]

Times(q, k) ==
    IF q.raised THEN q ELSE Quotient(q.num * k, q.den)

progress_unguarded(t) ==
    Times(Quotient(t.processed_records, t.total_records), 100)

\* ImportTask.progress_percentage, as an exact quotient.
progress_percentage(t) ==
    IF t.total_records = 0 THEN Quotient(0, 1)
    ELSE Times(Quotient(t.processed_records, t.total_records), 100)

\* Reading task.progress_percentage: the value read is the outcome.
read_progress_percentage(t) ==
    /\ t \in DOMAIN import_tasks
    /\ outcome' = Outcome("progress_percentage", t, progress_percentage(t))
    /\ UNCHANGED <<auth_groups, teachers, records, now,
                   academic_years, setups, grades, enrollments, import_tasks,
                   users, profiles>>

\* ------------------------------------------ SECTION 5: import task reporting
\* import_task.save() of a changed instance.
SaveTask(old, new) == import_tasks' = BagAdd(BagRemove(import_tasks, old), new)

create_import_task(name, task_type, total_records) ==
    /\ name \in YearNamesIn(academic_years)
    /\ BagCardinality(import_tasks) < MaxTasks
    /\ import_tasks' = BagAdd(import_tasks, NewImportTask(name, task_type, total_records))
    /\ outcome' = Outcome("create_import_task", name, "ok")
    /\ UNCHANGED <<auth_groups, teachers, records, now,
                   academic_years, setups, grades, enrollments, users, profiles>>

report_import_started(t) ==
    /\ t \in DOMAIN import_tasks
    /\ SaveTask(t, [t EXCEPT !.status = "IN_PROGRESS"])
    /\ outcome' = Outcome("report_import_started", t.academic_year, "ok")
    /\ UNCHANGED <<auth_groups, teachers, records, now,
                   academic_years, setups, grades, enrollments, users, profiles>>

report_import_progress(t, processed) ==
    /\ t \in DOMAIN import_tasks
    /\ SaveTask(t, [t EXCEPT !.processed_records = processed])
    /\ outcome' = Outcome("report_import_progress", t.academic_year, "ok")
    /\ UNCHANGED <<auth_groups, teachers, records, now,
                   academic_years, setups, grades, enrollments, users, profiles>>

\* The step report_import_completed marks, or Null when it marks none.
StepToMarkWithClassrooms(t, setup) ==
    IF t.task_type = "GRADES" /\ ~setup.import_grades_completed
    THEN "IMPORT_GRADES"
    ELSE IF t.task_type = "STUDENTS" /\ ~setup.import_students_completed
    THEN "IMPORT_STUDENTS"
    ELSE IF t.task_type = "CLASSROOMS" /\ ~setup.assign_classrooms_completed
    THEN "ASSIGN_CLASSROOMS"
    ELSE Null

StepToMark(t, setup) ==
    IF t.task_type = "GRADES" /\ ~setup.import_grades_completed
    THEN "IMPORT_GRADES"
    ELSE IF t.task_type = "STUDENTS" /\ ~setup.import_students_completed
    THEN "IMPORT_STUDENTS"
    ELSE Null

report_import_completed(t) ==
    /\ t \in DOMAIN import_tasks
    /\ SetupsOf(t.academic_year) # {}
    /\ SaveTask(t, [t EXCEPT !.status = "COMPLETED"])
    /\ LET step == StepToMark(t, setup_progress(t.academic_year)) IN
       IF step # Null
       THEN MarkStepEffect(t.academic_year, step, "CSV")
       ELSE UNCHANGED setups
    /\ outcome' = Outcome("report_import_completed", t.academic_year, "ok")
    /\ UNCHANGED <<auth_groups, teachers, records, now,
                   academic_years, grades, enrollments, users, profiles>>

report_import_failed(t) ==
    /\ t \in DOMAIN import_tasks
    /\ SaveTask(t, [t EXCEPT !.status = "FAILED"])
    /\ outcome' = Outcome("report_import_failed", t.academic_year, "ok")
    /\ UNCHANGED <<auth_groups, teachers, records, now,
                   academic_years, setups, grades, enrollments, users, profiles>>

\* --------------------------------------------------------------------- clock
\* SecurityMixin.lock_account's default duration_minutes.
DEFAULT_LOCK_MINUTES == 30

\* The amounts of time, in minutes, that pass between two operations: half
\* a lock period and a whole one.
Elapse == {DEFAULT_LOCK_MINUTES \div 2, DEFAULT_LOCK_MINUTES}

\* timezone.now() reads `now`; Tick lets d minutes pass.
Tick(d) ==
    /\ now + d <= MaxNow
    /\ now' = now + d
    /\ outcome' = Outcome("Tick", d, "ok")
    /\ UNCHANGED <<academic_years, setups, grades, enrollments, import_tasks,
                   users, profiles, auth_groups, teachers, records>>

\* ------------------------------------------------------ SoftDeletableModel
\* A row of a table whose model derives from SoftDeletableModel, with the
\* defaults of its two fields.
NewRecord(id) == [id |-> id, is_deleted |-> FALSE, deleted_at |-> NoDate]

\* Model.objects
SoftDeletableManager_get_queryset(table) == {r \in table : r.is_deleted = FALSE}

\* Model.all_objects
AllObjectsManager_get_queryset(table) == table

\* self.save() of a changed instance.
SaveRecord(old, new) == records' = (records \ {old}) \cup {new}

DeletedFlagOnly(r) == [r EXCEPT !.is_deleted = TRUE]

\* The assignments of SoftDeletableModel.delete.
Deleted(r) == [r EXCEPT !.is_deleted = TRUE, !.deleted_at = now]

\* The assignments of SoftDeletableModel.restore.
Restored(r) == [r EXCEPT !.is_deleted = FALSE, !.deleted_at = NoDate]

\* instance.delete() of the row with primary key id, read through all_objects.
SoftDeletableModel_delete(id) ==
    /\ \E r \in AllObjectsManager_get_queryset(records) : r.id = id
    /\ LET r == CHOOSE x \in AllObjectsManager_get_queryset(records) : x.id = id IN
       SaveRecord(r, Deleted(r))
    /\ outcome' = Outcome("SoftDeletableModel_delete", id, "ok")
    /\ UNCHANGED <<academic_years, setups, grades, enrollments, import_tasks,
                   users, profiles, auth_groups, teachers, now>>

\* instance.restore() of the row with primary key id.
SoftDeletableModel_restore(id) ==
    /\ \E r \in AllObjectsManager_get_queryset(records) : r.id = id
    /\ LET r == CHOOSE x \in AllObjectsManager_get_queryset(records) : x.id = id IN
       SaveRecord(r, Restored(r))
    /\ outcome' = Outcome("SoftDeletableModel_restore", id, "ok")
    /\ UNCHANGED <<academic_years, setups, grades, enrollments, import_tasks,
                   users, profiles, auth_groups, teachers, now>>

\* ------------------------------------------------------------------- User
\* An email address local@domain; the empty string has neither part.
Email(local, domain) == [local |-> local, domain |-> domain]

NoEmail == Email("", "")

Locals == {"test", "Test", "TEST"}

Domains == {"example.com", "EXAMPLE.COM"}

Emails == {Email(l, d) : l \in Locals, d \in Domains}

\* str.lower() on the spellings of Locals and Domains.
lower(s) ==
    CASE s \in Locals -> "test"
      [] s \in Domains -> "example.com"
      [] OTHER -> s

\* BaseUserManager.normalize_email, and the same steps in UserFactory._create:
\* the part after the last "@" is lowercased, the part before it is kept; an
\* address without "@" is returned as it is.
normalize_email(email) ==
    IF email = NoEmail THEN email ELSE [email EXCEPT !.domain = lower(@)]

\* A User row with the defaults of its fields.
NewUser(id, email, is_staff) ==
    [id |-> id,
     email |-> email,
     is_staff |-> is_staff,
     groups |-> {},
     failed_login_attempts |-> 0,
     account_locked_until |-> NoDate]

GetUser(u) == CHOOSE r \in users : r.id = u

\* user.save() of a changed instance.
SaveUser(old, new) == users' = (users \ {old}) \cup {new}

\* id = uuid4(): a primary key no row has.
FreshUserId == Cardinality(users) + 1

\* email is unique=True: the database compares the stored strings.
EmailTaken(email) == \E r \in users : r.email = email

\* DefaultUserManager._create_user on the user table `table`, which
\* create_user and create_staffuser call with their defaults of is_staff.
CreateUser(email, is_staff) ==
    IF email = NoEmail THEN [result |-> "ValueError", row |-> Null]
    ELSE LET row == NewUser(FreshUserId, normalize_email(email), is_staff) IN
         IF EmailTaken(row.email)
         THEN [result |-> "IntegrityError", row |-> Null]
         ELSE [result |-> "ok", row |-> row]

create_user(email) ==
    /\ LET r == CreateUser(email, FALSE) IN
       /\ users' = IF r.result = "ok" THEN users \cup {r.row} ELSE users
       /\ outcome' = Outcome("create_user", email, r.result)
    /\ UNCHANGED <<academic_years, setups, grades, enrollments, import_tasks,
                   profiles, auth_groups, teachers, records, now>>

create_staffuser(email) ==
    /\ LET r == CreateUser(email, TRUE) IN
       /\ users' = IF r.result = "ok" THEN users \cup {r.row} ELSE users
       /\ outcome' = Outcome("create_staffuser", email, r.result)
    /\ UNCHANGED <<academic_years, setups, grades, enrollments, import_tasks,
                   profiles, auth_groups, teachers, records, now>>

\* UserFactory(email=...) of the tests: _create normalizes the domain and
\* the model's manager inserts the row.
UserFactory_create(email) ==
    /\ LET row == NewUser(FreshUserId, normalize_email(email), FALSE) IN
       IF EmailTaken(row.email)
       THEN /\ outcome' = Outcome("UserFactory_create", email, "IntegrityError")
            /\ UNCHANGED users
       ELSE /\ users' = users \cup {row}
            /\ outcome' = Outcome("UserFactory_create", email, "ok")
    /\ UNCHANGED <<academic_years, setups, grades, enrollments, import_tasks,
                   profiles, auth_groups, teachers, records, now>>

\* ---------------------------------------------------------- SecurityMixin
\* increment_failed_login locks the account at this many failed attempts.
LOCK_THRESHOLD == 5

ThresholdExceeded(n) == n > LOCK_THRESHOLD

ThresholdReached(n) == n >= LOCK_THRESHOLD

is_account_locked(r) ==
    IF r.account_locked_until # NoDate
    THEN now < r.account_locked_until
    ELSE FALSE

\* The assignment of lock_account.
Locked(r, duration_minutes) ==
    [r EXCEPT !.account_locked_until = now + duration_minutes]

lock_account(u, duration_minutes) ==
    /\ \E r \in users : r.id = u
    /\ SaveUser(GetUser(u), Locked(GetUser(u), duration_minutes))
    /\ outcome' = Outcome("lock_account", u, "ok")
    /\ UNCHANGED <<academic_years, setups, grades, enrollments, import_tasks,
                   profiles, auth_groups, teachers, records, now>>

unlock_account(u) ==
    /\ \E r \in users : r.id = u
    /\ SaveUser(GetUser(u), [GetUser(u) EXCEPT !.account_locked_until = NoDate,
                                                !.failed_login_attempts = 0])
    /\ outcome' = Outcome("unlock_account", u, "ok")
    /\ UNCHANGED <<academic_years, setups, grades, enrollments, import_tasks,
                   profiles, auth_groups, teachers, records, now>>

\* The row after increment_failed_login's assignments and those of the
\* lock_account it calls.
IncrementFailedLogin(r) ==
    LET counted == [r EXCEPT !.failed_login_attempts = @ + 1] IN
    IF ThresholdReached(counted.failed_login_attempts)
    THEN Locked(counted, DEFAULT_LOCK_MINUTES)
    ELSE counted

\* The counter is a PositiveIntegerField; the model stops at MaxAttempts.
increment_failed_login(u) ==
    /\ \E r \in users : r.id = u
    /\ GetUser(u).failed_login_attempts < MaxAttempts
    /\ SaveUser(GetUser(u), IncrementFailedLogin(GetUser(u)))
    /\ outcome' = Outcome("increment_failed_login", u, "ok")
    /\ UNCHANGED <<academic_years, setups, grades, enrollments, import_tasks,
                   profiles, auth_groups, teachers, records, now>>

reset_failed_login(u) ==
    /\ \E r \in users : r.id = u
    /\ SaveUser(GetUser(u), [GetUser(u) EXCEPT !.failed_login_attempts = 0])
    /\ outcome' = Outcome("reset_failed_login", u, "ok")
    /\ UNCHANGED <<academic_years, setups, grades, enrollments, import_tasks,
                   profiles, auth_groups, teachers, records, now>>

\* ------------------------------------------------------ UserProfileFactory
ADMIN == "Admin"
PRINCIPAL == "Principal"
PARENT == "Parent"

\* RoleEnum.staff_roles()
StaffRoles ==
    {"Principal", "Vice Principal", "Teacher", "Staff", "Librarian",
     "Accountant", "Counselor", "Nurse", "Receptionist"}

\* The values of RoleEnum, which are the names of the roles' groups.
RoleEnum == {ADMIN, STUDENT, PARENT} \cup StaffRoles

ROLE_TO_PROFILE_MAP ==
    [role \in StaffRoles \cup {STUDENT, PARENT} |->
        IF role \in StaffRoles THEN SCHOOL_STAFF_PROFILE
        ELSE IF role = STUDENT THEN STUDENT_PROFILE
        ELSE PARENT_PROFILE]

\* get_required_profile_type; Null stands for its ValueError.
get_required_profile_type(role) ==
    IF role \in DOMAIN ROLE_TO_PROFILE_MAP THEN ROLE_TO_PROFILE_MAP[role]
    ELSE Null

\* validate_role_profile_consistency: the is_valid it returns, for roles
\* that have a profile mapping.
validate_role_profile_consistency(roles, profile_types) ==
    IF roles = {} THEN FALSE
    ELSE IF profile_types = {} THEN FALSE
    ELSE LET required_profiles == {get_required_profile_type(role) : role \in roles} IN
         IF required_profiles \ profile_types # {} THEN FALSE
         ELSE IF profile_types \ required_profiles # {} THEN FALSE
         ELSE validate_profile_combination(profile_types)

\* The tables create_user_with_profile writes.
Tables(user_rows, profile_rows, teacher_rows) ==
    [users |-> user_rows, profiles |-> profile_rows, teachers |-> teacher_rows]

NoRollback(before, after, raised) == after

\* @transaction.atomic: a call that raises leaves the tables as they were
\* before it.
transaction_atomic(before, after, raised) ==
    IF raised THEN before ELSE after

\* _create_teacher_model on the Teacher table `teacher_rows`, a set of
\* emails: a Teacher with the user's email is returned as it is, otherwise a
\* row is inserted; `accepted` is whether the database takes the row.
create_teacher_model(teacher_rows, user, accepted) ==
    IF TEACHER \notin user.groups
    THEN [result |-> "UserCreationError", teachers |-> teacher_rows]
    ELSE IF user.email \in teacher_rows
    THEN [result |-> "ok", teachers |-> teacher_rows]
    ELSE IF ~accepted
    THEN [result |-> "DatabaseError", teachers |-> teacher_rows]
    ELSE [result |-> "ok", teachers |-> teacher_rows \cup {user.email}]

\* The body of create_user_with_profile: how it ends, and the tables as its
\* writes have left them at that point.
CreateUserWithProfile(role, is_staff_user, create_teacher_profile, email, accepted) ==
    LET before == Tables(users, profiles, teachers)
        profile_type == get_required_profile_type(role)
        created == CreateUser(email, is_staff_user)
    IN
    IF role \notin auth_groups
    THEN [result |-> "UserCreationError", tables |-> before]
    ELSE IF profile_type = Null
    THEN [result |-> "UserCreationError", tables |-> before]
    ELSE IF ~validate_role_profile_consistency({role}, {profile_type})
    THEN [result |-> "UserCreationError", tables |-> before]
    ELSE IF created.result # "ok"
    THEN [result |-> created.result, tables |-> before]
    ELSE
    LET user == created.row
        with_user == Tables(users \cup {user}, profiles, teachers)
        existing == existing_profiles(user.id)
    IN
    IF \/ profile_type \in existing
       \/ ~validate_profile_combination(existing \cup {profile_type})
    THEN [result |-> "UserCreationError", tables |-> with_user]
    ELSE
    LET member == [user EXCEPT !.groups = @ \cup {role}]
        with_role == Tables(users \cup {member},
                            profiles \cup {[user |-> user.id, type |-> profile_type]},
                            teachers)
    IN
    IF role = TEACHER /\ create_teacher_profile
    THEN LET t == create_teacher_model(teachers, member, accepted) IN
         [result |-> t.result,
          tables |-> Tables(with_role.users, with_role.profiles, t.teachers)]
    ELSE [result |-> "ok", tables |-> with_role]

create_user_with_profile(role, is_staff_user, create_teacher_profile, email) ==
    /\ \E accepted \in IF role = TEACHER /\ create_teacher_profile
                       THEN BOOLEAN ELSE {TRUE} :
          LET r == CreateUserWithProfile(role, is_staff_user,
                                         create_teacher_profile, email, accepted)
              after == transaction_atomic(Tables(users, profiles, teachers),
                                          r.tables, r.result # "ok")
          IN
          /\ users' = after.users
          /\ profiles' = after.profiles
          /\ teachers' = after.teachers
          /\ outcome' = Outcome("create_user_with_profile", role, r.result)
    /\ UNCHANGED <<academic_years, setups, grades, enrollments, import_tasks,
                   auth_groups, records, now>>

\* ------------------------------------------------------------ specifications
\* The database after the migrations: every table empty.
Init ==
    /\ academic_years = {}
    /\ setups = EmptyBag
    /\ grades = {}
    /\ enrollments = EmptyBag
    /\ import_tasks = EmptyBag
    /\ users = {}
    /\ profiles = {}
    /\ auth_groups = {}
    /\ teachers = {}
    /\ records = {}
    /\ now = 1
    /\ outcome = Outcome("init", Null, "ok")

YearNames == {"2025-2026"}

\* Year lifecycle: the years are created with one valid choice of dates, and
\* the steps are marked with no import method or with CSV.
Next ==
    \/ \E n \in YearNames, d \in DeploymentType :
           create_academic_year(n, 1, 2, d, NoDate, NoDate)
    \/ \E n \in YearNames : AcademicYearSetup_create(n)
    \/ \E n \in YearNames : transition_to_enrollment(n)
    \/ \E n \in YearNames : transition_to_active(n)
    \/ \E n \in YearNames : transition_to_completed(n)
    \/ \E n \in YearNames, step \in SetupSteps, m \in {Null, "CSV"} :
           mark_step_complete(n, step, m)

Spec == Init /\ [][Next]_vars

\* Setup tracker: every step with every import method, and the import tasks
\* whose completion marks a step.
NextSetup ==
    \/ \E n \in YearNames, d \in DeploymentType :
           create_academic_year(n, 1, 2, d, NoDate, NoDate)
    \/ \E n \in YearNames, step \in SetupSteps, m \in ImportMethod \cup {Null} :
           mark_step_complete(n, step, m)
    \/ \E n \in YearNames, ty \in TaskType : create_import_task(n, ty, 0)
    \/ \E t \in DOMAIN import_tasks : report_import_completed(t)

SpecSetup == Init /\ [][NextSetup]_vars

\* Import tasks: the counters range over 0..MaxRecords.
NextImport ==
    \/ \E n \in YearNames : create_academic_year(n, 1, 2, FRESH_START, NoDate, NoDate)
    \/ \E n \in YearNames, ty \in TaskType, total \in 0..MaxRecords :
           create_import_task(n, ty, total)
    \/ \E t \in DOMAIN import_tasks : report_import_started(t)
    \/ \E t \in DOMAIN import_tasks, processed \in 0..MaxRecords :
           report_import_progress(t, processed)
    \/ \E t \in DOMAIN import_tasks : report_import_completed(t)
    \/ \E t \in DOMAIN import_tasks : report_import_failed(t)
    \/ \E t \in DOMAIN import_tasks : read_progress_percentage(t)

SpecImport == Init /\ [][NextImport]_vars

\* Sequences over S of length at most n.
SeqsUpTo(S, n) == UNION {[1..k -> S] : k \in 0..n}

GradeNames == 1..MaxGradeNames

\* Grade creation along the year lifecycle.
NextGrade ==
    \/ \E n \in YearNames, d \in DeploymentType :
           create_academic_year(n, 1, 2, d, NoDate, NoDate)
    \/ \E n \in YearNames, step \in SetupSteps \ {"COMPLETED"} :
           mark_step_complete(n, step, "CSV")
    \/ \E n \in YearNames : transition_to_enrollment(n)
    \/ \E n \in YearNames : transition_to_active(n)
    \/ \E n \in YearNames : transition_to_completed(n)
    \/ \E n \in YearNames, g \in GradeNames : create_grade(n, g)
    \/ \E n \in YearNames, names \in SeqsUpTo(GradeNames, MaxBulk) :
           bulk_create_grades(n, names)

SpecGrade == Init /\ [][NextGrade]_vars

\* Year creation with every choice of dates.
NextDates ==
    \/ \E n \in YearNames, d \in DeploymentType, sd \in Dates, ed \in Dates,
          es \in Dates \cup {NoDate}, ee \in Dates \cup {NoDate} :
           create_academic_year(n, sd, ed, d, es, ee)
    \/ \E n \in YearNames : transition_to_completed(n)

SpecDates == Init /\ [][NextDates]_vars

\* Enrollment starts from two years in SETUP, as create_academic_year leaves
\* them, the first with two grades and the second with one, as create_grade
\* leaves them, and from the users 1..MaxStudents in the Student group and
\* one more user in the Teacher group.
EnrollYears == {"2025-2026", "2026-2027"}

Students == 1..MaxStudents

InitEnroll ==
    /\ academic_years =
          {NewAcademicYear(n, 1, 2, FRESH_START, NoDate, NoDate) : n \in EnrollYears}
    /\ setups = SetToBag({NewAcademicYearSetup(n) : n \in EnrollYears})
    /\ grades = {NewGrade("2025-2026", 1), NewGrade("2025-2026", 2),
                 NewGrade("2026-2027", 1)}
    /\ enrollments = EmptyBag
    /\ import_tasks = EmptyBag
    /\ users = {[id |-> u, groups |-> {STUDENT}] : u \in Students}
                  \cup {[id |-> MaxStudents + 1, groups |-> {TEACHER}]}
    /\ profiles = {}
    /\ auth_groups = {}
    /\ teachers = {}
    /\ records = {}
    /\ now = 1
    /\ outcome = Outcome("init", Null, "ok")

UserIds == {r.id : r \in users}

NextEnroll ==
    \/ \E g \in grades, u \in UserIds : enroll_student(g, u)
    \/ \E g \in grades, u \in UserIds : unenroll_student(g, u)
    \/ \E g1 \in grades, g2 \in grades, u \in UserIds : transfer_student(u, g1, g2)
    \/ \E g \in grades, students \in SeqsUpTo(UserIds, MaxBulk) :
           bulk_enroll_students(g, students)
    \/ \E n \in EnrollYears : transition_to_completed(n)

SpecEnroll == InitEnroll /\ [][NextEnroll]_vars

\* Profile creation starts from the users 1..MaxUsers without a profile.
InitProfile ==
    /\ academic_years = {}
    /\ setups = EmptyBag
    /\ grades = {}
    /\ enrollments = EmptyBag
    /\ import_tasks = EmptyBag
    /\ users = {[id |-> u, groups |-> {}] : u \in 1..MaxUsers}
    /\ profiles = {}
    /\ auth_groups = {}
    /\ teachers = {}
    /\ records = {}
    /\ now = 1
    /\ outcome = Outcome("init", Null, "ok")

NextProfile ==
    \E type \in ProfileType, u \in UserIds : BaseUserTypeManager_create(type, u)

SpecProfile == InitProfile /\ [][NextProfile]_vars

\* Soft deletion starts from MaxRows rows as Model.objects.create leaves them.
InitSoftDelete ==
    /\ academic_years = {}
    /\ setups = EmptyBag
    /\ grades = {}
    /\ enrollments = EmptyBag
    /\ import_tasks = EmptyBag
    /\ users = {}
    /\ profiles = {}
    /\ auth_groups = {}
    /\ teachers = {}
    /\ records = {NewRecord(i) : i \in 1..MaxRows}
    /\ now = 1
    /\ outcome = Outcome("init", Null, "ok")

NextSoftDelete ==
    \/ \E id \in 1..MaxRows : SoftDeletableModel_delete(id)
    \/ \E id \in 1..MaxRows : SoftDeletableModel_restore(id)
    \/ \E d \in Elapse : Tick(d)

SpecSoftDelete == InitSoftDelete /\ [][NextSoftDelete]_vars

\* Account security starts from one user as UserFactory creates it: no
\* failed attempt and no lock.
InitSecurity ==
    /\ academic_years = {}
    /\ setups = EmptyBag
    /\ grades = {}
    /\ enrollments = EmptyBag
    /\ import_tasks = EmptyBag
    /\ users = {NewUser(1, Email("test", "example.com"), FALSE)}
    /\ profiles = {}
    /\ auth_groups = {}
    /\ teachers = {}
    /\ records = {}
    /\ now = 1
    /\ outcome = Outcome("init", Null, "ok")

NextSecurity ==
    \/ \E u \in UserIds : increment_failed_login(u)
    \/ \E u \in UserIds : reset_failed_login(u)
    \/ \E u \in UserIds : lock_account(u, DEFAULT_LOCK_MINUTES)
    \/ \E u \in UserIds : unlock_account(u)
    \/ \E d \in Elapse : Tick(d)

SpecSecurity == InitSecurity /\ [][NextSecurity]_vars

\* User creation, through the manager and through the tests' factory, with
\* every spelling of one address and with the empty address.
NextEmail ==
    \/ \E email \in Emails \cup {NoEmail} : create_user(email)
    \/ \E email \in Emails \cup {NoEmail} : create_staffuser(email)
    \/ \E email \in Emails \cup {NoEmail} : UserFactory_create(email)

SpecEmail == Init /\ [][NextEmail]_vars

\* The groups that exist when the factory runs: those of five roles, the
\* other roles' groups missing.
SeededRoles == {ADMIN, PRINCIPAL, TEACHER, STUDENT, PARENT}

\* The emails the factory is called with.
FactoryEmails == {Email("test", "example.com"), Email("Test", "EXAMPLE.COM"), NoEmail}

InitFactory ==
    /\ academic_years = {}
    /\ setups = EmptyBag
    /\ grades = {}
    /\ enrollments = EmptyBag
    /\ import_tasks = EmptyBag
    /\ users = {}
    /\ profiles = {}
    /\ auth_groups = SeededRoles
    /\ teachers = {}
    /\ records = {}
    /\ now = 1
    /\ outcome = Outcome("init", Null, "ok")

NextFactory ==
    \E role \in RoleEnum, is_staff_user \in BOOLEAN,
       create_teacher_profile \in BOOLEAN, email \in FactoryEmails :
        create_user_with_profile(role, is_staff_user, create_teacher_profile, email)

SpecFactory == InitFactory /\ [][NextFactory]_vars

\* The tracker of a year after its five steps were marked, the imports by CSV.
CompleteSetup(name) ==
    MarkStep(MarkStep(MarkStep(MarkStep(MarkStep(NewAcademicYearSetup(name),
        "BASIC_INFO", Null), "IMPORT_GRADES", "CSV"), "IMPORT_STUDENTS", "CSV"),
        "ASSIGN_CLASSROOMS", "CSV"), "REVIEW", Null)

\* A FRESH_START year as the transitions leave it in ENROLLMENT or ACTIVE.
OpenYear(name, status) ==
    [ToEnrollment(NewAcademicYear(name, 1, 2, FRESH_START, NoDate, NoDate))
        EXCEPT !.status = status]

\* Enrollment along the lifecycle starts from the year 2025-2026 open, in
\* ENROLLMENT or in ACTIVE, with its setup complete and two grades, and the
\* year 2026-2027 in SETUP as create_academic_year leaves it, with one
\* grade; the users are those of InitEnroll.  The open year is then driven
\* to ACTIVE and to COMPLETED.
InitEnrollOpen ==
    /\ \E status \in {ENROLLMENT, ACTIVE} :
          academic_years =
             {OpenYear("2025-2026", status),
              NewAcademicYear("2026-2027", 1, 2, FRESH_START, NoDate, NoDate)}
    /\ setups = SetToBag({CompleteSetup("2025-2026"),
                          NewAcademicYearSetup("2026-2027")})
    /\ grades = {NewGrade("2025-2026", 1), NewGrade("2025-2026", 2),
                 NewGrade("2026-2027", 1)}
    /\ enrollments = EmptyBag
    /\ import_tasks = EmptyBag
    /\ users = {[id |-> u, groups |-> {STUDENT}] : u \in Students}
                  \cup {[id |-> MaxStudents + 1, groups |-> {TEACHER}]}
    /\ profiles = {}
    /\ auth_groups = {}
    /\ teachers = {}
    /\ records = {}
    /\ now = 1
    /\ outcome = Outcome("init", Null, "ok")

NextEnrollOpen ==
    \/ \E g \in grades, u \in UserIds : enroll_student(g, u)
    \/ \E g \in grades, u \in UserIds : unenroll_student(g, u)
    \/ transition_to_active("2025-2026")
    \/ transition_to_completed("2025-2026")

SpecEnrollOpen == InitEnrollOpen /\ [][NextEnrollOpen]_vars

\* Transfers between the grades of InitEnrollOpen: students are enrolled,
\* unenrolled and transferred while the open year may be closed.
NextTransfer ==
    \/ \E g \in grades, u \in UserIds : enroll_student(g, u)
    \/ \E g \in grades, u \in UserIds : unenroll_student(g, u)
    \/ \E u \in UserIds, from_grade \in grades, to_grade \in grades :
          transfer_student(u, from_grade, to_grade)
    \/ transition_to_completed("2025-2026")

SpecTransfer == InitEnrollOpen /\ [][NextTransfer]_vars

\* Bulk enrollment starts from the years and grades of InitEnrollOpen with
\* every user holding the STUDENT role, so that a student is rejected only
\* for being enrolled in another grade of the year or for the year's status.
InitBulk ==
    /\ \E status \in {ENROLLMENT, ACTIVE} :
          academic_years =
             {OpenYear("2025-2026", status),
              NewAcademicYear("2026-2027", 1, 2, FRESH_START, NoDate, NoDate)}
    /\ setups = SetToBag({CompleteSetup("2025-2026"),
                          NewAcademicYearSetup("2026-2027")})
    /\ grades = {NewGrade("2025-2026", 1), NewGrade("2025-2026", 2),
                 NewGrade("2026-2027", 1)}
    /\ enrollments = EmptyBag
    /\ import_tasks = EmptyBag
    /\ users = {[id |-> u, groups |-> {STUDENT}] : u \in 1..(MaxStudents + 1)}
    /\ profiles = {}
    /\ auth_groups = {}
    /\ teachers = {}
    /\ records = {}
    /\ now = 1
    /\ outcome = Outcome("init", Null, "ok")

NextBulk ==
    \/ \E g \in grades, u \in UserIds : enroll_student(g, u)
    \/ \E g \in grades, u \in UserIds : unenroll_student(g, u)
    \/ \E g \in grades, students \in SeqsUpTo(UserIds, MaxBulk) :
           bulk_enroll_students(g, students)

SpecBulk == InitBulk /\ [][NextBulk]_vars

\* Imports against the setup tracker: steps are marked by hand, with no
\* method or as MANUAL, while import tasks of every type are completed.
NextImportSetup ==
    \/ \E n \in YearNames, d \in DeploymentType :
           create_academic_year(n, 1, 2, d, NoDate, NoDate)
    \/ \E n \in YearNames, step \in SetupSteps, m \in {Null, "MANUAL"} :
           mark_step_complete(n, step, m)
    \/ \E n \in YearNames, ty \in TaskType : create_import_task(n, ty, 0)
    \/ \E t \in DOMAIN import_tasks : report_import_completed(t)

SpecImportSetup == Init /\ [][NextImportSetup]_vars

\* ------------------------------------------------------------------ claims
StatusRank(st) ==
    CASE st = SETUP -> 0 [] st = ENROLLMENT -> 1 [] st = ACTIVE -> 2
      [] st = COMPLETED -> 3

StepRank(step) ==
    CASE step = "BASIC_INFO" -> 0 [] step = "IMPORT_GRADES" -> 1
      [] step = "IMPORT_STUDENTS" -> 2 [] step = "ASSIGN_CLASSROOMS" -> 3
      [] step = "REVIEW" -> 4 [] step = "COMPLETED" -> 5

\* C1: in every state the orchestrator's lifecycle operations reach, a year's
\* status differs from SETUP if and only if its setup_completed is true.
C1_StatusIffSetupCompleted ==
    \A y \in academic_years : (y.status # SETUP) <=> y.setup_completed

\* C2: in every state mark_step_complete and report_import_completed reach,
\* a completed importable step has an import method other than NONE.
C2_CompletedImpliesMethod ==
    \A s \in DOMAIN setups :
        /\ s.import_grades_completed => s.grades_import_method # "NONE"
        /\ s.import_students_completed => s.students_import_method # "NONE"
        /\ s.assign_classrooms_completed => s.classrooms_import_method # "NONE"

\* C3: create_grade and bulk_create_grades raise ValidationError and create
\* nothing when the year is ACTIVE or COMPLETED, and every grade that appears
\* belongs to a year that is then in SETUP or ENROLLMENT.
C3_GradesOnlyInSetupOrEnrollment ==
    [][/\ (/\ outcome'.op \in {"create_grade", "bulk_create_grades"}
            /\ GetYear(outcome'.arg).status \in {ACTIVE, COMPLETED})
           => (outcome'.result = "ValidationError" /\ grades' = grades)
       /\ \A g \in grades' \ grades :
              /\ outcome'.op \in {"create_grade", "bulk_create_grades"}
              /\ \E y \in academic_years :
                    y.name = g.academic_year /\ y.status \in {SETUP, ENROLLMENT}
      ]_vars

C3_Witness ==
    /\ outcome.op \in {"create_grade", "bulk_create_grades"}
    /\ outcome.result = "ValidationError"
    /\ GetYear(outcome.arg).status \in {ACTIVE, COMPLETED}
    /\ grades # {}

\* C4: no two StudentEnrollment rows, deleted or not, share the same
\* (student, academic_year).
C4_UniqueStudentYear ==
    \A e \in DOMAIN enrollments :
        Count(enrollments,
              {x \in DOMAIN enrollments :
                  x.student = e.student /\ x.academic_year = e.academic_year}) <= 1

C4_Witness ==
    /\ outcome.op = "enroll_student"
    /\ outcome.result = "IntegrityError"
    /\ \E e \in DOMAIN enrollments : e.student = outcome.arg.student /\ e.is_deleted
    /\ \E e1 \in DOMAIN enrollments, e2 \in DOMAIN enrollments :
          e1.student = e2.student /\ e1.academic_year # e2.academic_year

\* C5: the current_step of a setup tracker never moves to an earlier step.
C5_CurrentStepOnlyAdvances ==
    [][\A s \in DOMAIN setups : \A t \in DOMAIN setups' :
          t.academic_year = s.academic_year
          => StepRank(t.current_step) >= StepRank(s.current_step)]_vars

C7_StatusOnlyAdvances ==
    [][\A y \in academic_years :
          \E z \in academic_years' :
             /\ z.name = y.name
             /\ StatusRank(z.status) >= StatusRank(y.status)
             /\ y.status = COMPLETED =>
                   /\ z = y
                   /\ (/\ outcome'.arg = y.name
                        /\ outcome'.op \in {"transition_to_enrollment",
                                            "transition_to_active"})
                       => outcome'.result = "ValidationError"
                   /\ (/\ outcome'.arg = y.name
                        /\ outcome'.op = "transition_to_completed")
                       => outcome'.result = "noop"
      ]_vars

C7_Witness ==
    /\ outcome.op = "transition_to_active"
    /\ outcome.result = "ValidationError"
    /\ \E y \in academic_years :
          y.name = outcome.arg /\ y.status = COMPLETED /\ y.setup_completed

\* C8: every year create_academic_year creates has start_date before
\* end_date, and enrollment dates that are both absent or nest in the year.
C8_DatesNest ==
    \A y \in academic_years :
        /\ y.start_date < y.end_date
        /\ \/ y.enrollment_start_date = NoDate /\ y.enrollment_end_date = NoDate
           \/ /\ y.enrollment_start_date # NoDate
              /\ y.enrollment_end_date # NoDate
              /\ y.start_date <= y.enrollment_start_date
              /\ y.enrollment_start_date < y.enrollment_end_date
              /\ y.enrollment_end_date <= y.end_date

\* C9: a year just created is in SETUP with setup_completed false and a
\* tracker at BASIC_INFO with no flag set and no import method; every year
\* has exactly one tracker, every tracker a year, and creating a second
\* tracker for a year fails.
C9_OneCleanSetupPerYear ==
    /\ \A y \in academic_years :
          Count(setups, SetupsOf(y.name)) = 1
    /\ BagCardinality(setups) = Cardinality(academic_years)
    /\ outcome.op = "AcademicYearSetup_create" => outcome.result = "IntegrityError"
    /\ (outcome.op = "create_academic_year" /\ outcome.result = "ok") =>
          \E y \in academic_years : \E s \in DOMAIN setups :
             /\ y.name = outcome.arg
             /\ y.status = SETUP
             /\ ~y.setup_completed
             /\ s.academic_year = y.name
             /\ s.current_step = "BASIC_INFO"
             /\ ~s.basic_info_completed
             /\ ~s.import_grades_completed
             /\ ~s.import_students_completed
             /\ ~s.assign_classrooms_completed
             /\ ~s.review_completed
             /\ s.grades_import_method = "NONE"
             /\ s.students_import_method = "NONE"
             /\ s.classrooms_import_method = "NONE"

C9_Witness ==
    /\ outcome.op = "AcademicYearSetup_create"
    /\ \E y \in academic_years :
          y.name = outcome.arg /\ y.status = ACTIVE /\ is_setup_complete(y.name)

\* C10: a read of progress_percentage never raises, is 0 when total_records
\* is 0, and otherwise is processed_records / total_records * 100.
C10_ProgressPercentage ==
    outcome.op = "progress_percentage" =>
        LET t == outcome.arg
            v == outcome.result IN
        /\ ~v.raised
        /\ v.den > 0
        /\ t.total_records = 0 => v.num = 0
        /\ t.total_records # 0 =>
              v.num * t.total_records = v.den * t.processed_records * 100

C10_Witness ==
    /\ outcome.op = "progress_percentage"
    /\ outcome.arg.total_records = 0
    /\ outcome.arg.processed_records > 0
    /\ outcome.arg.status = "FAILED"


\* C11: delete() and restore() keep every row; delete() leaves its row with
\* is_deleted true and deleted_at non-null, restore() with is_deleted false
\* and deleted_at null; in every row is_deleted holds exactly when deleted_at
\* is non-null; and the default manager returns exactly the rows whose
\* is_deleted is false.
C11_SoftDeleteKeepsRows ==
    [][/\ {r.id : r \in records'} = {r.id : r \in records}
       /\ outcome'.op = "SoftDeletableModel_delete" =>
             \E r \in records' :
                r.id = outcome'.arg /\ r.is_deleted /\ r.deleted_at # NoDate
       /\ outcome'.op = "SoftDeletableModel_restore" =>
             \E r \in records' :
                r.id = outcome'.arg /\ ~r.is_deleted /\ r.deleted_at = NoDate
       /\ \A r \in records' : r.is_deleted <=> r.deleted_at # NoDate
       /\ \A r \in records' :
             r \in SoftDeletableManager_get_queryset(records') <=> ~r.is_deleted
      ]_vars

C11_Witness ==
    /\ outcome.op = "SoftDeletableModel_restore"
    /\ \E r \in records : r.id = outcome.arg /\ ~r.is_deleted
    /\ \E r \in records : r.id # outcome.arg /\ r.is_deleted /\ r.deleted_at > 1
    /\ Cardinality(SoftDeletableManager_get_queryset(records)) < Cardinality(records)

\* C12: every increment_failed_login raises the stored counter by exactly
\* one; when the account was not locked before the call and the counter it
\* leaves is below five, the account is not locked after it; when the
\* counter it leaves is five or more, the account is locked after it.
C12_LockAfterFiveFailures ==
    [][\A u \in UserIds :
          (outcome'.op = "increment_failed_login" /\ outcome'.arg = u) =>
             /\ GetUser(u).failed_login_attempts' =
                   GetUser(u).failed_login_attempts + 1
             /\ (/\ GetUser(u).failed_login_attempts' < 5
                  /\ ~is_account_locked(GetUser(u)))
                => ~is_account_locked(GetUser(u))'
             /\ GetUser(u).failed_login_attempts' >= 5
                => /\ is_account_locked(GetUser(u))'
                   /\ GetUser(u).account_locked_until' > now'
      ]_vars

C12_Witness ==
    /\ outcome.op = "increment_failed_login"
    /\ GetUser(outcome.arg).failed_login_attempts > 5
    /\ is_account_locked(GetUser(outcome.arg))
    /\ now > 1

\* C13: when a stored user's email equals the given email up to letter case,
\* creating a user with the given email ends in IntegrityError and stores
\* no user.
C13_EmailUniqueIgnoringCase ==
    [][(/\ outcome'.op \in {"create_user", "create_staffuser", "UserFactory_create"}
        /\ outcome'.arg # NoEmail
        /\ \E r \in users :
              /\ lower(r.email.local) = lower(outcome'.arg.local)
              /\ lower(r.email.domain) = lower(outcome'.arg.domain))
       => (outcome'.result = "IntegrityError" /\ users' = users)
      ]_vars

\* C14: a create_user_with_profile(role) that returns has stored exactly one
\* new user, who is in exactly the group role.value and has exactly one
\* profile, of type ROLE_TO_PROFILE_MAP[role], and no other profile row; one
\* that raises has left users, profiles and group memberships as they were;
\* and it raises UserCreationError when the role's group is missing or the
\* role has no profile mapping.
C14_FactoryAllOrNothing ==
    [][outcome'.op = "create_user_with_profile" =>
          LET role == outcome'.arg IN
          /\ outcome'.result = "ok" =>
                /\ role \in DOMAIN ROLE_TO_PROFILE_MAP
                /\ \E r \in users' \ users :
                      /\ users' = users \cup {r}
                      /\ r.groups = {role}
                      /\ profiles' = profiles \cup
                            {[user |-> r.id, type |-> ROLE_TO_PROFILE_MAP[role]]}
                      /\ {p \in profiles' : p.user = r.id} =
                            {[user |-> r.id, type |-> ROLE_TO_PROFILE_MAP[role]]}
          /\ outcome'.result # "ok" =>
                /\ users' = users
                /\ profiles' = profiles
                /\ teachers' = teachers
          /\ (role \notin auth_groups \/ role = ADMIN) =>
                outcome'.result = "UserCreationError"
      ]_vars

C14_Witness ==
    /\ outcome.op = "create_user_with_profile"
    /\ outcome.arg = TEACHER
    /\ outcome.result = "DatabaseError"
    /\ \E r \in users : r.groups = {STUDENT}
    /\ \E p \in profiles : p.type = STUDENT_PROFILE
    /\ ~\E r \in users : TEACHER \in r.groups

\* C15: transition_to_enrollment on a year in SETUP whose five steps are
\* complete and whose deployment type is FRESH_START stores status ENROLLMENT
\* and setup_completed true; on any other year it raises ValidationError and
\* leaves the stored status and setup_completed as they were.
C15_EnrollmentExactlyWhenReady ==
    [][\A y \in academic_years :
          (outcome'.op = "transition_to_enrollment" /\ outcome'.arg = y.name) =>
             \E z \in academic_years' :
                /\ z.name = y.name
                /\ IF /\ y.status = SETUP
                      /\ \E s \in DOMAIN setups :
                            /\ s.academic_year = y.name
                            /\ s.basic_info_completed
                            /\ s.import_grades_completed
                            /\ s.import_students_completed
                            /\ s.assign_classrooms_completed
                            /\ s.review_completed
                      /\ y.deployment_type = FRESH_START
                   THEN /\ outcome'.result = "ok"
                        /\ z.status = ENROLLMENT
                        /\ z.setup_completed
                   ELSE /\ outcome'.result = "ValidationError"
                        /\ z.status = y.status
                        /\ z.setup_completed = y.setup_completed
      ]_vars

C15_Witness ==
    /\ outcome.op = "transition_to_enrollment"
    /\ outcome.result = "ValidationError"
    /\ \E y \in academic_years :
          /\ y.name = outcome.arg
          /\ y.status = SETUP
          /\ y.deployment_type = MID_YEAR
          /\ is_setup_complete(y.name)

\* C16: a FRESH_START year is never created ACTIVE and becomes ACTIVE only
\* from ENROLLMENT, so a FRESH_START year that is ACTIVE was in ENROLLMENT
\* before; transition_to_active on a FRESH_START year in SETUP raises
\* ValidationError and changes nothing.
C16_FreshStartThroughEnrollment ==
    [][/\ \A z \in academic_years' :
             (z.deployment_type = FRESH_START /\ z.status = ACTIVE) =>
                \E y \in academic_years :
                   /\ y.name = z.name
                   /\ y.deployment_type = FRESH_START
                   /\ y.status \in {ENROLLMENT, ACTIVE}
       /\ \A y \in academic_years :
             (/\ outcome'.op = "transition_to_active"
              /\ outcome'.arg = y.name
              /\ y.deployment_type = FRESH_START
              /\ y.status = SETUP)
             => (outcome'.result = "ValidationError"
                 /\ academic_years' = academic_years)
      ]_vars

C16_Witness ==
    /\ outcome.op = "transition_to_active"
    /\ outcome.result = "ok"
    /\ \E y \in academic_years :
          /\ y.name = outcome.arg
          /\ y.deployment_type = FRESH_START
          /\ y.status = ACTIVE

\* C17: a MID_YEAR year never has status ENROLLMENT, and it becomes ACTIVE
\* only from SETUP.
C17_MidYearSkipsEnrollment ==
    [][\A z \in academic_years' :
          z.deployment_type = MID_YEAR =>
             /\ z.status # ENROLLMENT
             /\ z.status = ACTIVE =>
                   \E y \in academic_years :
                      /\ y.name = z.name
                      /\ y.deployment_type = MID_YEAR
                      /\ y.status \in {SETUP, ACTIVE}
      ]_vars

C17_Witness ==
    /\ outcome.op = "transition_to_active"
    /\ outcome.result = "ok"
    /\ \E y \in academic_years :
          /\ y.name = outcome.arg
          /\ y.deployment_type = MID_YEAR
          /\ y.status = ACTIVE

\* C18: a year whose status is ENROLLMENT or ACTIVE has a setup tracker
\* with all five completion flags true.
C18_OpenYearHasCompleteSetup ==
    \A y \in academic_years :
        y.status \in {ENROLLMENT, ACTIVE} =>
            /\ SetupsOf(y.name) # {}
            /\ \A s \in SetupsOf(y.name) :
                  /\ s.basic_info_completed
                  /\ s.import_grades_completed
                  /\ s.import_students_completed
                  /\ s.assign_classrooms_completed
                  /\ s.review_completed

C18_Witness ==
    /\ outcome.op = "mark_step_complete"
    /\ outcome.result = "ok"
    /\ \E y \in academic_years :
          /\ y.name = outcome.arg
          /\ y.status \in {ENROLLMENT, ACTIVE}
          /\ is_setup_complete(y.name)


\* C19: an enroll_student call adds an enrollment only when the user is in
\* the Student group and the grade's year is in SETUP, ENROLLMENT or ACTIVE,
\* and then it adds one non-deleted row for that student and grade; for a
\* user outside the Student group or a year in COMPLETED it raises
\* ValidationError and leaves the enrollments as they were.
C19_EnrollNeedsStudentAndOpenYear ==
    [][outcome'.op = "enroll_student" =>
          LET u == outcome'.arg.student
              g == outcome'.arg.grade
              student_role == \E r \in users : r.id = u /\ STUDENT \in r.groups
              status == (CHOOSE y \in academic_years : y.name = g.academic_year).status
          IN
          /\ enrollments' # enrollments =>
                /\ student_role
                /\ status \in {SETUP, ENROLLMENT, ACTIVE}
                /\ enrollments' = BagAdd(enrollments,
                       [student |-> u, grade |-> g.name,
                        academic_year |-> g.academic_year, is_deleted |-> FALSE])
          /\ (~student_role \/ status = COMPLETED) =>
                /\ outcome'.result = "ValidationError"
                /\ enrollments' = enrollments
      ]_vars

C19_Witness ==
    /\ outcome.op = "enroll_student"
    /\ outcome.result = "ValidationError"
    /\ HasRole(outcome.arg.student, STUDENT)
    /\ GetYear(outcome.arg.grade.academic_year).status = COMPLETED
    /\ \E e \in DOMAIN enrollments : e.academic_year # outcome.arg.grade.academic_year

\* C20 as stated: whenever the student has a non-deleted enrollment in the
\* same grade the call returns it and adds no row, and whenever the student
\* has a non-deleted enrollment in another grade of the same year the call
\* raises ValidationError and leaves the enrollments as they were.
C20_EnrollIdempotentPerGrade ==
    [][outcome'.op = "enroll_student" =>
          LET u == outcome'.arg.student
              g == outcome'.arg.grade
              active == {e \in DOMAIN enrollments :
                            /\ e.student = u
                            /\ e.academic_year = g.academic_year
                            /\ ~e.is_deleted}
          IN
          /\ (\E e \in active : e.grade = g.name) =>
                (outcome'.result = "existing" /\ enrollments' = enrollments)
          /\ (\E e \in active : e.grade # g.name) =>
                (outcome'.result = "ValidationError" /\ enrollments' = enrollments)
      ]_vars

\* C20, amended: the same, for a student in the Student group and a year
\* that is not COMPLETED; on a COMPLETED year the call raises
\* ValidationError whatever the student's enrollments, and adds no row.
C20_EnrollIdempotentWhileOpen ==
    [][outcome'.op = "enroll_student" =>
          LET u == outcome'.arg.student
              g == outcome'.arg.grade
              active == {e \in DOMAIN enrollments :
                            /\ e.student = u
                            /\ e.academic_year = g.academic_year
                            /\ ~e.is_deleted}
              student_role == \E r \in users : r.id = u /\ STUDENT \in r.groups
              status == (CHOOSE y \in academic_years : y.name = g.academic_year).status
          IN
          /\ (/\ \E e \in active : e.grade = g.name
               /\ student_role
               /\ status # COMPLETED) =>
                (outcome'.result = "existing" /\ enrollments' = enrollments)
          /\ (/\ \E e \in active : e.grade = g.name
               /\ ~(student_role /\ status # COMPLETED)) =>
                (outcome'.result = "ValidationError" /\ enrollments' = enrollments)
          /\ (\E e \in active : e.grade # g.name) =>
                (outcome'.result = "ValidationError" /\ enrollments' = enrollments)
      ]_vars

C20_Witness ==
    /\ outcome.op = "enroll_student"
    /\ outcome.result = "existing"
    /\ \E e \in DOMAIN enrollments :
          /\ e.student = outcome.arg.student
          /\ e.grade = outcome.arg.grade.name
          /\ e.academic_year = outcome.arg.grade.academic_year
          /\ ~e.is_deleted
    /\ BagCardinality(enrollments) = 2

\* C21: unenroll_student soft-deletes exactly the student's non-deleted
\* enrollment in the given grade: that row is kept with is_deleted true and
\* every other row is as before.  When the student has no non-deleted
\* enrollment in the grade, the call raises ValidationError and the stored
\* enrollments are unchanged.
C21_UnenrollSoftDeletesOne ==
    [][\A g \in grades, u \in UserIds :
          unenroll_student(g, u) =>
            LET found == {e \in BagToSet(enrollments) :
                             /\ e.student = u
                             /\ e.grade = g.name
                             /\ e.academic_year = g.academic_year
                             /\ ~e.is_deleted}
            IN
            IF found = {}
            THEN outcome'.result = "ValidationError" /\ enrollments' = enrollments
            ELSE /\ outcome'.result = "ok"
                 /\ \E e \in found :
                      LET gone == [e EXCEPT !.is_deleted = TRUE] IN
                      /\ found = {e}
                      /\ CopiesIn(e, enrollments') = CopiesIn(e, enrollments) - 1
                      /\ CopiesIn(gone, enrollments') = CopiesIn(gone, enrollments) + 1
                      /\ \A x \in BagToSet(enrollments) \cup BagToSet(enrollments') :
                            x \notin {e, gone} =>
                               CopiesIn(x, enrollments') = CopiesIn(x, enrollments)
    ]_vars

\* A student with two enrollments was unenrolled from one grade: that row
\* is soft-deleted and the other is still active.
C21_Witness ==
    /\ outcome.op = "unenroll_student"
    /\ outcome.result = "ok"
    /\ \E e \in BagToSet(enrollments) : e.student = outcome.arg /\ e.is_deleted
    /\ \E e \in BagToSet(enrollments) : e.student = outcome.arg /\ ~e.is_deleted

\* C22: transfer_student(student, from_grade, to_grade) succeeds when both
\* grades belong to the same academic year, the year is not COMPLETED, the
\* student holds the STUDENT role and has a non-deleted enrollment in
\* from_grade: it returns an enrollment in to_grade, and afterwards the
\* student's only non-deleted enrollment of that year is the one in to_grade.
C22_TransferSucceeds ==
    [][\A u \in UserIds, from_grade \in grades, to_grade \in grades :
          ( /\ transfer_student(u, from_grade, to_grade)
            /\ from_grade.academic_year = to_grade.academic_year
            /\ GetYear(from_grade.academic_year).status # COMPLETED
            /\ HasRole(u, STUDENT)
            /\ NewEnrollment(u, from_grade) \in BagToSet(enrollments) )
          => /\ outcome'.result = "ok"
             /\ {e \in BagToSet(enrollments') :
                    /\ e.student = u
                    /\ e.academic_year = to_grade.academic_year
                    /\ ~e.is_deleted} = {NewEnrollment(u, to_grade)}
    ]_vars

\* C23: transfer_student is atomic.  Whenever the call raises (the grades are
\* of different academic years, the student is not enrolled in from_grade, or
\* the enrollment into to_grade fails after the unenrollment step), the stored
\* enrollments are exactly as before the call; in particular a non-deleted
\* enrollment of the student in from_grade is still there and not deleted.
C23_TransferAtomic ==
    [][\A u \in UserIds, from_grade \in grades, to_grade \in grades :
          (transfer_student(u, from_grade, to_grade) /\ outcome'.result # "ok")
          => /\ enrollments' = enrollments
             /\ \A e \in BagToSet(enrollments) :
                   (e = NewEnrollment(u, from_grade))
                      => CopiesIn(e, enrollments') = CopiesIn(e, enrollments)
    ]_vars

\* A transfer failed in the enrollment step, after the unenrollment step had
\* soft-deleted the row: the student's enrollment is active afterwards.
C23_Witness ==
    /\ outcome.op = "transfer_student"
    /\ outcome.result = "IntegrityError"
    /\ \E e \in BagToSet(enrollments) : e.student = outcome.arg /\ ~e.is_deleted

\* C24: bulk_enroll_students(grade, students) returns exactly one enrollment
\* for each listed student for whom enroll_student succeeds, in list order;
\* a student rejected with ValidationError is skipped and neither prevents
\* the enrollment of later students nor undoes the enrollment of earlier
\* ones.  The students of a list are enrolled independently of each other,
\* so enroll_student succeeds for a listed student exactly when it succeeds
\* on the table the call starts from.
C24_BulkEnrollsEachAccepted ==
    [][\A g \in grades, students \in SeqsUpTo(UserIds, MaxBulk) :
          bulk_enroll_students(g, students) =>
            LET succeeds(u) == Enroll(enrollments, g, u).result \in {"ok", "existing"}
                accepted == SelectSeq(students, succeeds)
                returned == BulkEnroll(enrollments, g, students, 1).enrollments
            IN
            /\ outcome'.result = "ok"
            /\ returned = [i \in 1..Len(accepted) |-> NewEnrollment(accepted[i], g)]
            /\ \A i \in 1..Len(accepted) :
                  NewEnrollment(accepted[i], g) \in BagToSet(enrollments')
    ]_vars

\* C25: report_import_completed sets the task to COMPLETED.  For a GRADES
\* task whose year has IMPORT_GRADES not yet complete it marks IMPORT_GRADES
\* complete with import method CSV, and likewise a STUDENTS task marks
\* IMPORT_STUDENTS; when the matching step is already complete, and for every
\* CLASSROOMS task, the setup tracker (flags, import methods and
\* current_step) is left unchanged.
C25_ImportCompletedMarksStep ==
    [][\A t \in BagToSet(import_tasks) :
          report_import_completed(t) =>
            LET before == setup_progress(t.academic_year)
                after == setup_progress(t.academic_year)'
                done == [t EXCEPT !.status = "COMPLETED"]
            IN
            /\ done \in BagToSet(import_tasks')
            /\ BagCardinality(import_tasks') = BagCardinality(import_tasks)
            /\ \A x \in BagToSet(import_tasks) \cup BagToSet(import_tasks') :
                  x \notin {t, done} =>
                     CopiesIn(x, import_tasks') = CopiesIn(x, import_tasks)
            /\ IF t.task_type = "GRADES" /\ ~before.import_grades_completed
               THEN /\ after.import_grades_completed
                    /\ after.grades_import_method = "CSV"
               ELSE IF t.task_type = "STUDENTS" /\ ~before.import_students_completed
               THEN /\ after.import_students_completed
                    /\ after.students_import_method = "CSV"
               ELSE setups' = setups
    ]_vars

\* A STUDENTS import completed on a year whose IMPORT_STUDENTS step had been
\* marked by hand: the step's method is not CSV and the task is COMPLETED.
C25_Witness ==
    /\ outcome.op = "report_import_completed"
    /\ \E t \in BagToSet(import_tasks) :
          /\ t.task_type = "STUDENTS"
          /\ t.status = "COMPLETED"
          /\ setup_progress(t.academic_year).import_students_completed
          /\ setup_progress(t.academic_year).students_import_method = "MANUAL"

\* C26: for a setup tracker created by create_academic_year and changed only
\* through mark_step_complete and report_import_completed, current_step is
\* COMPLETED if and only if is_complete() is true (all five step flags set).
C26_CompletedIffAllStepsDone ==
    \A s \in BagToSet(setups) : (s.current_step = "COMPLETED") <=> is_complete(s)

====
